---- MODULE Spec2Model ----
(***************************************************************************)
(* Model of the Performance Management Chart engine of cycling_training.py *)
(* (calc_pmc / _calc_pmc_inner) together with the two stores it works on:  *)
(* training_workouts (filled by sync_tp) and training_load.                *)
(* calc_workout_quality and _calc_speed_kph are pure functions; each is    *)
(* modelled as operators and applied in a specification of its own.        *)
(*                                                                         *)
(* Numbers.  TSS values are whole TSS points.  The stored ctl / atl / tsb  *)
(* are two-decimal values and are held as integers in hundredths.  The     *)
(* Python floats the loop carries from one day to the next are held in     *)
(* fixed point with Scale units per TSS point (four decimals); every float *)
(* division and every round(x, 2) is a round-to-nearest, ties-to-even, on  *)
(* that grid.                                                              *)
(*                                                                         *)
(* Stored LoadPoints always carry a ctl and an atl (the engine writes      *)
(* both; a seeded row is a CTL/ATL pair).  The manually seeded row may be  *)
(* dated one day ahead of the first modelled day.                          *)
(***************************************************************************)
EXTENDS Integers, FiniteSets, Sequences, TLC

VARIABLES
    today,        \* date.today() as a day number
    workouts,     \* training_workouts: (date, external_id) -> row
    load,         \* training_load: date -> row
    lastOp,       \* "run" when an engine run produced this state
    lastMode,     \* branch taken by the engine run that produced this state
    lastAnchor,   \* anchor date that run read (0: no row)
    lastWritten,  \* dates that run upserted
    runAge,       \* 0: the last run was today, 1: it was yesterday, and in both
                  \* cases no workout dated up to its day was upserted since;
                  \* 2: anything else
    seedDate,     \* date of the manually seeded row (0: none)
    pc,           \* position of each concurrent engine run
    anc,          \* the anchor row each concurrent run has read
    rws,          \* the daily TSS rows each concurrent run has read
    load0,        \* training_load before the concurrent runs started
    wq,           \* one call of calc_workout_quality: arguments and result
    sv,           \* one call of _calc_speed_kph: arguments, iterate, position
    tap,          \* one taper simulation of cmd_taper, day by day
    fpr,          \* one FTP projection: inputs and the projected values
    st,           \* one call of strava_api_get, request by request
    tw,           \* the training_workouts row of one TrainingPeaks workout
    tx            \* rows a run has upserted in its open transaction

vars == <<today, workouts, load, lastOp, lastMode, lastAnchor, lastWritten,
          runAge, seedDate, pc, anc, rws, load0, wq, sv, tap, fpr, st, tw, tx>>

----------------------------------------------------------------------------
(* Bounds *)

NULL == 0 - 1

MaxDay == 3            \* calendar days 1 .. MaxDay
MaxWorkouts == 2       \* rows in training_workouts
ExtIds == {1, 2}       \* external workout ids per date
\* (tss_planned, tss_actual) of a synced workout: nothing yet, planned only,
\* planned and completed
WorkoutRows == {[tss_planned |-> NULL, tss_actual |-> NULL],
                [tss_planned |-> 100, tss_actual |-> NULL],
                [tss_planned |-> 100, tss_actual |-> 500]}
\* the manually seeded row: its date, CTL and ATL (hundredths)
SeedDays == {1, 2}
SeedCtl == {1000, 1010, 5500}
SeedAtl == {6000}
Procs == {1, 2}
\* arguments of calc_workout_quality: TSS in points, IF in hundredths
TssPlannedArgs == {NULL, 0, 50, 100}
TssActualArgs == {NULL, 0, 60, 100, 110, 300}
IfPlannedArgs == {NULL, 0, 50, 80}
IfActualArgs == {NULL, 0, 78, 80, 200}
\* arguments of _calc_speed_kph: power in W, system mass in kg, CdA in
\* hundredths of a square metre, Crr in thousandths
Powers == {0 - 50, 0, 50, 100, 200, 300}
Masses == {70, 85}
Cdas == {0, 25, 35}
Crrs == {0, 4}
\* cmd_taper: days to the race, and the latest stored CTL / ATL (hundredths)
TaperDays == {0 - 5, 0, 3, 20, 45, 90}
TaperCtl == {0, 4000, 5500}
TaperAtl == {0, 6000}
\* FTP projection: latest ftp_watts of ftp_history (NULL: no row), the
\* configured target, and dates as day numbers of the year 2026
FtpHistory == {NULL, 263, 300, 310}
FtpTargets == {280, 300}
FtpTodays == {300, 330, 360, 364, 370}
FtpTargetDates == {364, 400}
FtpRaceDates == {330, 364, 530}
FtpNextTests == {310, 365}
\* fields of a TrainingPeaks workout (intensity factors in hundredths)
TpTssPlanned == {NULL, 0, 100}
TpTssActual == {NULL, 110}
TpIfPlanned == {NULL, 0, 80}
TpIf == {NULL, 0, 78}
TpIfActual == {NULL, 80}
\* strava_api_get: the max_retries argument, what one GET can do (raise
\* requests.RequestException, or answer with an HTTP status), and what
\* strava_refresh_token can do (return a token, return None, raise)
MaxRetriesArgs == {0, 2, 5}
GetOutcomes == {"exception", "200", "429", "401", "404", "500"}
RefreshOutcomes == {"token", "none", "raised"}
\* rows sent by one statement of execute_values
PageSize == 2
\* (tss_planned, tss_actual) of the workouts a single run is checked on
RunRows == {[tss_planned |-> NULL, tss_actual |-> NULL],
            [tss_planned |-> 50, tss_actual |-> NULL],
            [tss_planned |-> 80, tss_actual |-> NULL],
            [tss_planned |-> 100, tss_actual |-> NULL],
            [tss_planned |-> 100, tss_actual |-> 0],
            [tss_planned |-> 100, tss_actual |-> 500]}

Days == 1..MaxDay

----------------------------------------------------------------------------
(* Program constants *)

CTL_DAYS == 42
ATL_DAYS == 7
ANCHOR_MIN_CTL == 10

Scale == 100 * 100
Cent == Scale \div 100

NoRow == [date |-> 0, ctl |-> 0, atl |-> 0]
EmptyFcn == [x \in {} |-> 0]

----------------------------------------------------------------------------
(* Arithmetic *)

\* a / b rounded to the nearest integer, ties to even (b > 0)
RoundDiv(a, b) ==
    LET q == a \div b
        r == a % b
    IN  IF 2 * r < b THEN q
        ELSE IF 2 * r > b THEN q + 1
        ELSE IF q % 2 = 0 THEN q ELSE q + 1

\* round(x, 2): fixed-point value -> hundredths
Round2Truncating(x) == x \div Cent
Round2(x) == RoundDiv(x, Cent)

\* float(v) of a stored two-decimal value
FloatOfStoredWhole(h) == (h \div 100) * 100 * Cent
FloatOfStored(h) == h * Cent

\* float(r[1]) of a TSS value
FloatOfTss(t) == t * Scale

Abs(x) == IF x < 0 THEN 0 - x ELSE x

SetMax(S) == CHOOSE m \in S : \A x \in S : x <= m
SetMin(S) == CHOOSE m \in S : \A x \in S : m <= x

----------------------------------------------------------------------------
(* training_workouts *)

CoalesceSecondFirst(a, b) == IF b # NULL THEN b ELSE a
Coalesce(a, b) == IF a # NULL THEN a ELSE b

WorkoutDates(w) == {k[1] : k \in DOMAIN w}

\* SUM(...) over a set of rows: NULL inputs are skipped, NULL when none is left
RECURSIVE SqlSum(_, _)
SqlSum(w, keys) ==
    IF keys = {} THEN NULL
    ELSE LET k == CHOOSE x \in keys : TRUE
             v == Coalesce(w[k].tss_actual, w[k].tss_planned)
             rest == SqlSum(w, keys \ {k})
         IN  IF v = NULL THEN rest
             ELSE IF rest = NULL THEN v
             ELSE v + rest

DailyTssNoDefault(w, d) == SqlSum(w, {k \in DOMAIN w : k[1] = d})

\* SELECT date, COALESCE(SUM(COALESCE(tss_actual, tss_planned)), 0) ... GROUP BY date
DailyTss(w, d) == Coalesce(SqlSum(w, {k \in DOMAIN w : k[1] = d}), 0)

DailyTssRows(w) == [d \in WorkoutDates(w) |-> DailyTss(w, d)]

\* tss_by_date.get(d, 0.0)
TssGet(rows, d) == IF d \in DOMAIN rows THEN FloatOfTss(rows[d]) ELSE 0

----------------------------------------------------------------------------
(* training_load *)

\* SELECT date, ctl, atl FROM training_load ORDER BY date DESC LIMIT 1
ReadAnchor(l) ==
    IF DOMAIN l = {} THEN NoRow
    ELSE LET d == SetMax(DOMAIN l)
         IN  [date |-> d, ctl |-> l[d].ctl, atl |-> l[d].atl]

\* INSERT ... ON CONFLICT (date) DO UPDATE
UpsertDoNothing(l, results) == l @@ results
Upsert(l, results) == results @@ l

----------------------------------------------------------------------------
(* _calc_pmc_inner *)

\* x + (tss - x) / n
EwmaWrongSign(x, tss, n) == x - RoundDiv(tss - x, n)
EwmaNoDecay(x, tss, n) == x + RoundDiv(tss, n)
Ewma(x, tss, n) == x + RoundDiv(tss - x, n)

TsbSwapped(ctl, atl) == atl - ctl

Tsb(ctl, atl) == ctl - atl

LoadPoint(tss, ctl, atl) ==
    [daily_tss |-> tss \div Scale, ctl |-> Round2(ctl), atl |-> Round2(atl),
     tsb |-> Round2(Tsb(ctl, atl))]

\* while d <= today
WalkStopsBeforeToday(d, t) == d < t
WalkContinues(d, t) == d <= t

\* the while loop: one result per day from d on, seeded with (ctl, atl)
RECURSIVE Walk(_, _, _, _, _)
Walk(ctl, atl, d, t, rows) ==
    IF ~WalkContinues(d, t) THEN EmptyFcn
    ELSE LET tss == TssGet(rows, d)
             c == Ewma(ctl, tss, CTL_DAYS)
             a == Ewma(atl, tss, ATL_DAYS)
         IN  (d :> LoadPoint(tss, c, a)) @@ Walk(c, a, d + 1, t, rows)

IsAnchoredInclusive(anchor) ==
    /\ anchor # NoRow
    /\ anchor.date # 0
    /\ FloatOfStored(anchor.ctl) >= ANCHOR_MIN_CTL * Scale

\* if anchor and anchor[0] and float(anchor[1]) > 10
IsAnchored(anchor) ==
    /\ anchor # NoRow
    /\ anchor.date # 0
    /\ FloatOfStored(anchor.ctl) > ANCHOR_MIN_CTL * Scale

AnchorStartSameDay(anchor) == anchor.date

\* start = anchor_date + timedelta(days=1)
AnchorStart(anchor) == anchor.date + 1

NoNewDaysLate(start, t) == start > t + 1

\* if start > today
NoNewDays(start, t) == start > t

\* if not rows
NoData(rows) == DOMAIN rows = {}

\* the run as a function of what it read: the branch taken and the rows upserted
PmcInner(anchor, rows, t) ==
    IF NoData(rows) THEN [mode |-> "nodata", results |-> EmptyFcn]
    ELSE IF \E d \in DOMAIN rows : rows[d] = NULL
         THEN [mode |-> "raised", results |-> EmptyFcn]
    ELSE IF IsAnchored(anchor)
         THEN IF NoNewDays(AnchorStart(anchor), t)
              THEN [mode |-> "display", results |-> EmptyFcn]
              ELSE [mode |-> "anchored",
                    results |-> Walk(FloatOfStored(anchor.ctl), FloatOfStored(anchor.atl),
                                     AnchorStart(anchor), t, rows)]
    ELSE [mode |-> "cold",
          results |-> Walk(0, 0, SetMin(DOMAIN rows), t, rows)]

----------------------------------------------------------------------------
(* calc_workout_quality.  TSS arguments are whole points, IF arguments are *)
(* hundredths; a missing argument (None) is NULL.  Adherences and the      *)
(* score are held with Scale units per point; a quotient of two arguments  *)
(* is held with RatioScale units, so that times 100 it is a number of      *)
(* points in Scale units.                                                   *)

RatioScale == 100 * Scale
QUALITY_MAX == 100
TSS_RATIO_CAP == 12           \* 1.2, in tenths

Min(a, b) == IF a < b THEN a ELSE b
Max(a, b) == IF a > b THEN a ELSE b

NoScore == [defined |-> FALSE, value |-> 0]
Score(x) == [defined |-> TRUE, value |-> x]

\* any(v is None for v in [...])
AnyNoneButIfActual(tp, ta, ip, ia) == tp = NULL \/ ta = NULL \/ ip = NULL
AnyNone(tp, ta, ip, ia) == tp = NULL \/ ta = NULL \/ ip = NULL \/ ia = NULL

\* the float quotient x / y
Ratio(x, y) == RoundDiv(x * RatioScale, y)

\* min(tss_actual / tss_planned, 1.2) / 1.2 * 100
TssAdherenceUncapped(ta, tp) == RoundDiv(Ratio(ta, tp) * 10, TSS_RATIO_CAP)
TssAdherence(ta, tp) ==
    RoundDiv(Min(Ratio(ta, tp), TSS_RATIO_CAP * (RatioScale \div 10)) * 10, TSS_RATIO_CAP)

\* 100 - abs(if_actual - if_planned) / if_planned * 100
IfAdherence(ia, ip) == 100 * Scale - Ratio(Abs(ia - ip), ip)

\* max(0, min(100, x))
ClampScoreFromAboveOnly(x) == Min(QUALITY_MAX * Scale, x)
ClampScore(x) == Max(0, Min(QUALITY_MAX * Scale, x))

CalcWorkoutQuality(tp, ta, ip, ia) ==
    IF AnyNone(tp, ta, ip, ia) THEN NoScore
    ELSE IF tp = 0 \/ ip = 0 THEN NoScore
    ELSE Score(ClampScore(RoundDiv(TssAdherence(ta, tp) + IfAdherence(ia, ip), 2)))

NoQuality == [tss_planned |-> NULL, tss_actual |-> NULL, if_planned |-> NULL,
              if_actual |-> NULL, called |-> FALSE, score |-> NoScore]

----------------------------------------------------------------------------
(* _calc_speed_kph.  Speeds are held in cm/s and the returned speed in     *)
(* hundredths of a km/h.  The derivative fp is held in units of 1e-5 N,    *)
(* where it is zero only if the float is.  The residual f is held in mW;   *)
(* for small speeds and powers, where f and fp can both be tiny, f is held *)
(* in units of 1e-7 W, so that f / fp is a number of cm/s.                 *)

RHO_TENTHS == 12              \* rho = 1.2
G_CENTI == 981                \* g = 9.81
V_INIT == 800                 \* v = 8.0
V_RESET == 100                \* v = 1.0
MAX_ITER == 50                \* range(50)
FineBelowV == 200             \* speeds below 2 m/s
FineBelowP == 50              \* and powers up to 50 W are on the fine grid

\* crr * system_kg * g, in mN
RollForce(crr, kg) == RoundDiv(crr * kg * G_CENTI, 100)

\* cda * v**2, in hundredths
CdaVSquared(cda, v) == RoundDiv(cda * RoundDiv(v * v, 100), 100)

\* f = crr * system_kg * g * v + 0.5 * rho * cda * v**3 - power_w, in mW
Residual(p, kg, cda, crr, v) ==
    RoundDiv(RollForce(crr, kg) * v, 100)
        + RoundDiv((RHO_TENTHS \div 2) * CdaVSquared(cda, v) * v, 100) - p * 1000

\* the same f on the fine grid, in units of 1e-7 W
ResidualFine(p, kg, cda, crr, v) ==
    crr * kg * G_CENTI * v + RoundDiv((RHO_TENTHS \div 2) * cda * v * v * v, 100)
        - p * 1000 * 100 * 100

\* fp = crr * system_kg * g + 1.5 * rho * cda * v**2, in units of 1e-5 N
Derivative(kg, cda, crr, v) ==
    crr * kg * G_CENTI + RoundDiv(((3 * RHO_TENTHS) \div 4) * cda * v * v, 50)

\* if fp == 0
ZeroDerivativeIgnored(fp) == FALSE
ZeroDerivative(fp) == fp = 0

\* f / fp, in cm/s
Quotient(p, kg, cda, crr, v) ==
    IF v < FineBelowV /\ Abs(p) <= FineBelowP
    THEN RoundDiv(ResidualFine(p, kg, cda, crr, v), Derivative(kg, cda, crr, v))
    ELSE RoundDiv(Residual(p, kg, cda, crr, v) * 100,
                  RoundDiv(Derivative(kg, cda, crr, v), 100))

\* one pass of the loop body from iterate v: the next iterate and whether the
\* loop goes on ("loop"), was left ("break") or divided by zero ("raised")
NewtonStepFrozen(p, kg, cda, crr, v) == [v |-> v, pc |-> "loop"]
NewtonStep(p, kg, cda, crr, v) ==
    LET fp == Derivative(kg, cda, crr, v)
    IN  IF ZeroDerivative(fp) THEN [v |-> v, pc |-> "break"]
        ELSE IF fp = 0 THEN [v |-> v, pc |-> "raised"]
        ELSE LET v1 == v - Quotient(p, kg, cda, crr, v)
             IN  [v |-> IF v1 < 0 THEN V_RESET ELSE v1, pc |-> "loop"]

\* v * 3.6
Kph(v) == RoundDiv(v * 36, 10)

\* the iterate the loop ends with when it is at v with i passes done
RECURSIVE Iterate(_, _, _, _, _, _)
Iterate(p, kg, cda, crr, v, i) ==
    IF i = MAX_ITER THEN v
    ELSE LET r == NewtonStep(p, kg, cda, crr, v)
         IN  IF r.pc = "loop" THEN Iterate(p, kg, cda, crr, r.v, i + 1) ELSE r.v

CalcSpeedKph(p, kg, cda, crr) == Kph(Iterate(p, kg, cda, crr, V_INIT, 0))

\* cmd_race_plan: draft_cda = cda * (1 - draft_pct / 100), in hundredths
DRAFT_PCT == 20               \* drafting_benefit_pct
DRAFT_LO_PCT == 15
DRAFT_HI_PCT == 25
COURSE_PENALTY_PCT == 5       \* course_penalty_pct
DraftCdaIncreased(cda, pct) == RoundDiv(cda * (100 + pct), 100)
DraftCda(cda, pct) == RoundDiv(cda * (100 - pct), 100)

\* kph * course_factor, course_factor = 1 - course_penalty
OnCourse(kph) == RoundDiv(kph * (100 - COURSE_PENALTY_PCT), 100)

\* draft_kph, draft_lo_kph, draft_hi_kph
DraftKph(p, kg, cda, crr, pct) == OnCourse(CalcSpeedKph(p, kg, DraftCda(cda, pct), crr))

----------------------------------------------------------------------------
(* cmd_taper: the projected CTL / ATL are held like the engine's floats,   *)
(* with Scale units per TSS point.                                         *)

TAPER_BASE_FLOOR == 350       \* weekly TSS
TAPER_BUILD_WEEKLY == 500
TAPER_PEAK_WEEKLY == 600
TAPER_EASY_DAILY == 15

\* weeks_out > tenths / 10, with weeks_out = rem / 7
WeeksOutAtLeast(rem, tenths) == rem * 10 >= tenths * 7
WeeksOutAbove(rem, tenths) == rem * 10 > tenths * 7

\* daily_tss of the day with rem days remaining; weekly = pmc['ctl'] * 7
TaperTss(rem, weekly) ==
    IF WeeksOutAbove(rem, 120) THEN RoundDiv(Max(weekly, TAPER_BASE_FLOOR * Scale), 7)
    ELSE IF WeeksOutAbove(rem, 60) THEN RoundDiv(TAPER_BUILD_WEEKLY * Scale, 7)
    ELSE IF WeeksOutAbove(rem, 30) THEN RoundDiv(TAPER_PEAK_WEEKLY * Scale, 7)
    ELSE IF WeeksOutAbove(rem, 20) THEN RoundDiv((TAPER_PEAK_WEEKLY * Scale * 7) \div 10, 7)
    ELSE IF WeeksOutAbove(rem, 3) THEN RoundDiv((TAPER_PEAK_WEEKLY * Scale * 5) \div 10, 7)
    ELSE TAPER_EASY_DAILY * Scale

NoTaper == [pc |-> "idle"]
----------------------------------------------------------------------------
(* ftp_project and _project_ftp_at_race: watts are whole numbers in the    *)
(* history and the configuration; a weekly gain is held in 1 / GainScale   *)
(* watts per week, a projection in milliwatts.                             *)

GainScale == 10000
HARD_TARGET_FTP == 300        \* target_ftp = 300
HARD_TARGET_DAY == 364        \* date(2026, 12, 31)
NO_HISTORY_FTP == 263

\* weekly_gain = (target_ftp - current_ftp) / max(1, days / 7)
WeeklyGainUnclamped(cur, tgt, days) ==
    IF days = 0 THEN 0 ELSE RoundDiv((tgt - cur) * 7 * GainScale, days)
WeeklyGain(cur, tgt, days) == RoundDiv((tgt - cur) * 7 * GainScale, Max(7, days))

\* current_ftp + weekly_gain * max(0, days / 7), in milliwatts
FtpAt(cur, gain, days) == cur * 1000 + RoundDiv(gain * Max(0, days), 70)

\* round(x) of a milliwatt value: whole watts
RoundWatt(mw) == RoundDiv(mw, 1000)

NoFtp == [pc |-> "idle"]
----------------------------------------------------------------------------
(* strava_api_get *)

STRAVA_MAX_RETRIES == 5

\* resp.status_code == 401 and not auth_retried
AuthRetryAlways(status, auth_retried) == status = "401"
AuthRetry(status, auth_retried) == status = "401" /\ ~auth_retried

NoStrava == [pc |-> "idle"]
----------------------------------------------------------------------------
(* sync_tp: the columns of a training_workouts row the quality score is    *)
(* computed from, and the score.                                           *)

\* a or b
PyOr(a, b) == IF a = NULL \/ a = 0 THEN b ELSE a

\* the row dict built from one workout of the response
TpRow(w) ==
    LET if_actual == PyOr(w.if, w.ifActual)
    IN  [tss_planned |-> w.tssPlanned, if_planned |-> w.ifPlanned,
         tss_actual |-> w.tssActual, if_actual |-> if_actual,
         workout_quality |-> CalcWorkoutQuality(w.tssPlanned, w.tssActual,
                                                w.ifPlanned, if_actual)]

\* ON CONFLICT ... DO UPDATE SET ... = EXCLUDED. ...
ConflictUpdateKeepsScore(old, new) ==
    [new EXCEPT !.workout_quality =
                    IF old.workout_quality.defined THEN old.workout_quality ELSE @]
ConflictUpdate(old, new) == new

NoIngest == [pc |-> "idle"]
\* psycopg2.connect(DB_CONN): a connection is not in autocommit mode
AutocommitOn == TRUE
Autocommit == FALSE

\* the dates of the next statement of execute_values: up to PageSize rows,
\* in the order of results
RECURSIVE FirstDates(_, _)
FirstDates(S, n) ==
    IF n = 0 \/ S = {} THEN {}
    ELSE {SetMin(S)} \cup FirstDates(S \ {SetMin(S)}, n - 1)

NextPage(results, pending) ==
    LET D == FirstDates(DOMAIN results \ DOMAIN pending, PageSize)
    IN  [d \in D |-> results[d]]

NoTx == [pc |-> "idle"]

\* nothing but the operation under study is going on
MoreIdle ==
    /\ tap = NoTaper
    /\ fpr = NoFtp
    /\ st = NoStrava
    /\ tw = NoIngest
    /\ tx = NoTx

NoSolve == [power |-> 0, kg |-> 0, cda |-> 0, crr |-> 0, v |-> 0, i |-> 0,
            pc |-> "idle", kph |-> NULL]


----------------------------------------------------------------------------
(* Initial states *)

SeedRow(c, a) == [daily_tss |-> 0, ctl |-> c, atl |-> a, tsb |-> c - a]

InitStore ==
    /\ today = 1
    /\ workouts = EmptyFcn
    /\ \/ load = EmptyFcn /\ seedDate = 0
       \/ \E d \in SeedDays, c \in SeedCtl, a \in SeedAtl :
            load = (d :> SeedRow(c, a)) /\ seedDate = d

Init ==
    /\ InitStore
    /\ lastOp = "init"
    /\ lastMode = "none"
    /\ lastAnchor = 0
    /\ lastWritten = {}
    /\ runAge = 2
    /\ pc = [p \in Procs |-> "idle"]
    /\ anc = [p \in Procs |-> NoRow]
    /\ rws = [p \in Procs |-> EmptyFcn]
    /\ load0 = EmptyFcn
    /\ wq = NoQuality
    /\ sv = NoSolve
    /\ MoreIdle

----------------------------------------------------------------------------
(* Actions *)

moreVars == <<tap, fpr, st, tw, tx>>
fnVars == <<wq, sv, moreVars>>

concVars == <<pc, anc, rws, load0>>
runVars == <<lastMode, lastAnchor, lastWritten>>
storeVars == <<today, workouts, load, lastOp, runVars, runAge, seedDate, concVars>>

\* the description of the last run is dropped by every other operation
ForgetRun ==
    /\ lastOp' = "other"
    /\ lastMode' = "none"
    /\ lastAnchor' = 0
    /\ lastWritten' = {}

\* the calendar day advances
AdvanceDay ==
    /\ today < MaxDay
    /\ today' = today + 1
    /\ runAge' = IF runAge = 0 THEN 1 ELSE 2
    /\ ForgetRun
    /\ UNCHANGED <<workouts, load, seedDate, concVars, fnVars>>

\* external ids are opaque keys: on each date they are handed out in order
InOrder(K) == \A k \in K : k[2] = 1 \/ <<k[1], k[2] - 1>> \in K

\* sync_tp upserts one workout row, keyed by (date, external_id)
SyncWorkout ==
    \E d \in Days, e \in ExtIds, row \in WorkoutRows :
        /\ Cardinality(DOMAIN workouts \cup {<<d, e>>}) <= MaxWorkouts
        /\ InOrder(DOMAIN workouts \cup {<<d, e>>})
        /\ workouts' = (<<d, e>> :> row) @@ workouts
        /\ workouts' # workouts
        /\ runAge' = IF d <= today - runAge THEN 2 ELSE runAge
        /\ ForgetRun
        /\ UNCHANGED <<today, load, seedDate, concVars, fnVars>>

\* calc_pmc: one whole engine run
CalcPmc ==
    LET anchor == ReadAnchor(load)
        rows == DailyTssRows(workouts)
        run == PmcInner(anchor, rows, today)
    IN  /\ load' = Upsert(load, run.results)
        /\ lastOp' = "run"
        /\ lastMode' = run.mode
        /\ lastAnchor' = anchor.date
        /\ lastWritten' = DOMAIN run.results
        /\ runAge' = 0
        /\ UNCHANGED <<today, workouts, seedDate, concVars, fnVars>>

Next == AdvanceDay \/ SyncWorkout \/ CalcPmc

Spec == Init /\ [][Next]_vars

----------------------------------------------------------------------------
(* Two engine runs on one store, interleaved at their store accesses.  The *)
(* connection is not in autocommit mode: a run's upserts become visible at *)
(* its commit, and two runs upserting the same dates are serialised by the *)
(* row locks, so upsert and commit are one step.                           *)

\* any table of at most MaxWorkouts workout rows
WorkoutTables ==
    UNION {[K -> WorkoutRows] :
           K \in {S \in SUBSET (Days \X ExtIds) :
                      Cardinality(S) <= MaxWorkouts /\ InOrder(S)}}

InitConc ==
    /\ today \in Days
    /\ workouts \in WorkoutTables
    /\ \/ load = EmptyFcn /\ seedDate = 0
       \/ \E d \in SeedDays, c \in SeedCtl, a \in SeedAtl :
            load = (d :> SeedRow(c, a)) /\ seedDate = d
    /\ load0 = load
    /\ wq = NoQuality
    /\ sv = NoSolve
    /\ MoreIdle
    /\ lastOp = "init"
    /\ lastMode = "none"
    /\ lastAnchor = 0
    /\ lastWritten = {}
    /\ runAge = 2
    /\ pc = [p \in Procs |-> "start"]
    /\ anc = [p \in Procs |-> NoRow]
    /\ rws = [p \in Procs |-> EmptyFcn]

seqVars == <<today, workouts, lastOp, runVars, runAge, seedDate, load0, fnVars>>

\* cur.execute("SELECT date, ctl, atl FROM training_load ..."); anchor = cur.fetchone()
ReadAnchorStep(p) ==
    /\ pc[p] = "start"
    /\ anc' = [anc EXCEPT ![p] = ReadAnchor(load)]
    /\ pc' = [pc EXCEPT ![p] = "anchor_read"]
    /\ UNCHANGED <<load, rws, seqVars>>

\* cur.execute("SELECT date, COALESCE(SUM(...)) ..."); rows = cur.fetchall()
ReadRowsStep(p) ==
    /\ pc[p] = "anchor_read"
    /\ rws' = [rws EXCEPT ![p] = DailyTssRows(workouts)]
    /\ pc' = [pc EXCEPT ![p] = "rows_read"]
    /\ UNCHANGED <<load, anc, seqVars>>

\* the computation on what was read, execute_values and conn.commit()
WriteCommitStep(p) ==
    /\ pc[p] = "rows_read"
    /\ load' = Upsert(load, PmcInner(anc[p], rws[p], today).results)
    /\ pc' = [pc EXCEPT ![p] = "done"]
    /\ UNCHANGED <<anc, rws, seqVars>>

NextConc == \E p \in Procs : ReadAnchorStep(p) \/ ReadRowsStep(p) \/ WriteCommitStep(p)

SpecConc == InitConc /\ [][NextConc]_vars

----------------------------------------------------------------------------
(* One engine run (and its repetitions) on any store and workout table.    *)

\* any table of at most MaxWorkouts rows out of RunRows
RunTables ==
    UNION {[K -> RunRows] :
           K \in {S \in SUBSET (Days \X ExtIds) :
                      Cardinality(S) <= MaxWorkouts /\ InOrder(S)}}

InitRun ==
    /\ today \in Days
    /\ workouts \in RunTables
    /\ \/ load = EmptyFcn /\ seedDate = 0
       \/ \E d \in SeedDays, c \in SeedCtl, a \in SeedAtl :
            load = (d :> SeedRow(c, a)) /\ seedDate = d
    /\ lastOp = "init"
    /\ lastMode = "none"
    /\ lastAnchor = 0
    /\ lastWritten = {}
    /\ runAge = 2
    /\ pc = [p \in Procs |-> "idle"]
    /\ anc = [p \in Procs |-> NoRow]
    /\ rws = [p \in Procs |-> EmptyFcn]
    /\ load0 = EmptyFcn
    /\ wq = NoQuality
    /\ sv = NoSolve
    /\ MoreIdle

SpecRun == InitRun /\ [][CalcPmc]_vars

----------------------------------------------------------------------------
(* One call of calc_workout_quality on any arguments.                      *)

InitQuality ==
    /\ today = 1
    /\ workouts = EmptyFcn
    /\ load = EmptyFcn
    /\ seedDate = 0
    /\ lastOp = "init"
    /\ lastMode = "none"
    /\ lastAnchor = 0
    /\ lastWritten = {}
    /\ runAge = 2
    /\ pc = [p \in Procs |-> "idle"]
    /\ anc = [p \in Procs |-> NoRow]
    /\ rws = [p \in Procs |-> EmptyFcn]
    /\ load0 = EmptyFcn
    /\ sv = NoSolve
    /\ MoreIdle
    /\ \E tp \in TssPlannedArgs, ta \in TssActualArgs, ip \in IfPlannedArgs, ia \in IfActualArgs :
          wq = [tss_planned |-> tp, tss_actual |-> ta, if_planned |-> ip,
                if_actual |-> ia, called |-> FALSE, score |-> NoScore]

\* quality = calc_workout_quality(tss_planned, tss_actual, if_planned, if_actual)
QualityCall ==
    /\ ~wq.called
    /\ wq' = [wq EXCEPT !.called = TRUE,
                        !.score = CalcWorkoutQuality(wq.tss_planned, wq.tss_actual,
                                                     wq.if_planned, wq.if_actual)]
    /\ UNCHANGED <<storeVars, sv, moreVars>>

SpecQuality == InitQuality /\ [][QualityCall]_vars

----------------------------------------------------------------------------
(* One call of _calc_speed_kph on any arguments, one loop pass per step.   *)

InitSpeed ==
    /\ today = 1
    /\ workouts = EmptyFcn
    /\ load = EmptyFcn
    /\ seedDate = 0
    /\ lastOp = "init"
    /\ lastMode = "none"
    /\ lastAnchor = 0
    /\ lastWritten = {}
    /\ runAge = 2
    /\ pc = [p \in Procs |-> "idle"]
    /\ anc = [p \in Procs |-> NoRow]
    /\ rws = [p \in Procs |-> EmptyFcn]
    /\ load0 = EmptyFcn
    /\ wq = NoQuality
    /\ MoreIdle
    /\ \E p \in Powers, kg \in Masses, cda \in Cdas, crr \in Crrs :
          sv = [power |-> p, kg |-> kg, cda |-> cda, crr |-> crr, v |-> V_INIT,
                i |-> 0, pc |-> "loop", kph |-> NULL]

\* one pass of the for loop
NewtonIteration ==
    /\ sv.pc = "loop"
    /\ sv.i < MAX_ITER
    /\ LET r == NewtonStep(sv.power, sv.kg, sv.cda, sv.crr, sv.v)
       IN  sv' = [sv EXCEPT !.v = r.v, !.pc = r.pc,
                            !.i = IF r.pc = "loop" THEN @ + 1 ELSE @]
    /\ UNCHANGED <<storeVars, wq, moreVars>>

\* return v * 3.6, after the last pass or after the break
ReturnSpeed ==
    /\ sv.pc = "break" \/ (sv.pc = "loop" /\ sv.i = MAX_ITER)
    /\ sv' = [sv EXCEPT !.pc = "done", !.kph = Kph(sv.v)]
    /\ UNCHANGED <<storeVars, wq, moreVars>>

NextSpeed == NewtonIteration \/ ReturnSpeed

SpecSpeed == InitSpeed /\ [][NextSpeed]_vars

\* the loop is sequential code: a pass or the return that can run does run
SpecSpeedFair == SpecSpeed /\ WF_vars(NextSpeed)

----------------------------------------------------------------------------
(* One taper simulation of cmd_taper, one day of the loop per step.        *)

InitIdleStore ==
    /\ today = 1
    /\ workouts = EmptyFcn
    /\ load = EmptyFcn
    /\ seedDate = 0
    /\ lastOp = "init"
    /\ lastMode = "none"
    /\ lastAnchor = 0
    /\ lastWritten = {}
    /\ runAge = 2
    /\ pc = [p \in Procs |-> "idle"]
    /\ anc = [p \in Procs |-> NoRow]
    /\ rws = [p \in Procs |-> EmptyFcn]
    /\ load0 = EmptyFcn

\* pmc = _get_current_pmc(); ctl_proj = pmc['ctl']; atl_proj = pmc['atl']
InitTaper ==
    /\ InitIdleStore
    /\ wq = NoQuality
    /\ sv = NoSolve
    /\ fpr = NoFtp
    /\ st = NoStrava
    /\ tw = NoIngest
    /\ tx = NoTx
    /\ \E n \in TaperDays, c \in TaperCtl, a \in TaperAtl :
          tap = [days_to_race |-> n, d |-> 0, ctl0 |-> c, ctl |-> FloatOfStored(c),
                 atl |-> FloatOfStored(a), tss |-> NULL, pc |-> "loop"]

\* one pass of `for d in range(days_to_race)`
TaperDay ==
    /\ tap.pc = "loop"
    /\ tap.d < tap.days_to_race
    /\ LET tss == TaperTss(tap.days_to_race - tap.d, FloatOfStored(tap.ctl0) * 7)
       IN  tap' = [tap EXCEPT !.d = @ + 1, !.tss = tss,
                              !.ctl = Ewma(tap.ctl, tss, CTL_DAYS),
                              !.atl = Ewma(tap.atl, tss, ATL_DAYS)]
    /\ UNCHANGED <<storeVars, wq, sv, fpr, st, tw, tx>>

\* tsb_proj = ctl_proj - atl_proj
TaperEnd ==
    /\ tap.pc = "loop"
    /\ tap.d >= tap.days_to_race
    /\ tap' = [tap EXCEPT !.pc = "done"]
    /\ UNCHANGED <<storeVars, wq, sv, fpr, st, tw, tx>>

NextTaper == TaperDay \/ TaperEnd

SpecTaper == InitTaper /\ [][NextTaper]_vars

----------------------------------------------------------------------------
(* The two FTP projections, called once each on the same history, day and  *)
(* configuration.                                                          *)

InitFtp ==
    /\ InitIdleStore
    /\ wq = NoQuality
    /\ sv = NoSolve
    /\ tap = NoTaper
    /\ st = NoStrava
    /\ tw = NoIngest
    /\ tx = NoTx
    /\ \E c \in FtpHistory, t \in FtpTargets, n \in FtpTodays,
          td \in FtpTargetDates, rd \in FtpRaceDates, nt \in FtpNextTests :
          fpr = [current_ftp |-> c, target_ftp |-> t, day |-> n, target_date |-> td,
                 race_date |-> rd, next_test |-> nt, pc |-> "ready",
                 projected |-> FALSE, weekly_gain |-> NULL, ftp_at_vattern |-> NULL,
                 ftp_at_eoy |-> NULL, ftp_at_next |-> NULL,
                 raced |-> FALSE, race_ftp |-> NULL]

\* ftp_project()
FtpProject ==
    /\ fpr.pc = "ready"
    /\ ~fpr.projected
    /\ IF fpr.current_ftp = NULL
         THEN fpr' = [fpr EXCEPT !.projected = TRUE]
         ELSE LET gain == WeeklyGain(fpr.current_ftp, fpr.target_ftp, fpr.target_date - fpr.day)
              IN  fpr' = [fpr EXCEPT
                            !.projected = TRUE,
                            !.weekly_gain = gain,
                            !.ftp_at_vattern = FtpAt(fpr.current_ftp, gain, fpr.race_date - fpr.day),
                            !.ftp_at_eoy = FtpAt(fpr.current_ftp, gain, fpr.target_date - fpr.day),
                            !.ftp_at_next = FtpAt(fpr.current_ftp, gain, fpr.next_test - fpr.day)]
    /\ UNCHANGED <<storeVars, wq, sv, tap, st, tw, tx>>

\* _project_ftp_at_race()
ProjectFtpAtRace ==
    /\ fpr.pc = "ready"
    /\ ~fpr.raced
    /\ IF fpr.current_ftp = NULL
         THEN fpr' = [fpr EXCEPT !.raced = TRUE, !.race_ftp = NO_HISTORY_FTP]
         ELSE LET gain == WeeklyGain(fpr.current_ftp, HARD_TARGET_FTP, HARD_TARGET_DAY - fpr.day)
              IN  fpr' = [fpr EXCEPT
                            !.raced = TRUE,
                            !.race_ftp = RoundWatt(FtpAt(fpr.current_ftp, gain,
                                                         fpr.race_date - fpr.day))]
    /\ UNCHANGED <<storeVars, wq, sv, tap, st, tw, tx>>

NextFtp == FtpProject \/ ProjectFtpAtRace

SpecFtp == InitFtp /\ [][NextFtp]_vars

----------------------------------------------------------------------------
(* One engine run seen statement by statement: the reads, the statements   *)
(* of execute_values inside the connection's transaction, conn.commit(),   *)
(* and conn.close() of calc_pmc's finally; a failure can end the run at    *)
(* any statement.  load is the committed table, which is what any other    *)
(* connection reads.                                                       *)

InitTx ==
    /\ today \in Days
    /\ workouts \in WorkoutTables
    /\ \/ load = EmptyFcn /\ seedDate = 0
       \/ \E d \in SeedDays, c \in SeedCtl, a \in SeedAtl :
            load = (d :> SeedRow(c, a)) /\ seedDate = d
    /\ load0 = load
    /\ lastOp = "init"
    /\ lastMode = "none"
    /\ lastAnchor = 0
    /\ lastWritten = {}
    /\ runAge = 2
    /\ pc = [p \in Procs |-> "idle"]
    /\ anc = [p \in Procs |-> NoRow]
    /\ rws = [p \in Procs |-> EmptyFcn]
    /\ wq = NoQuality
    /\ sv = NoSolve
    /\ tap = NoTaper
    /\ fpr = NoFtp
    /\ st = NoStrava
    /\ tw = NoIngest
    /\ tx = [pc |-> "start", mode |-> "none", results |-> EmptyFcn,
             pending |-> EmptyFcn, failed |-> FALSE, seen |-> FALSE, snapshot |-> EmptyFcn]

txFrame == <<today, workouts, lastOp, runVars, runAge, seedDate, concVars,
             wq, sv, tap, fpr, st, tw>>

\* the two SELECTs and the walk, up to the first execute_values
TxCompute ==
    /\ tx.pc = "start"
    /\ LET r == PmcInner(ReadAnchor(load), DailyTssRows(workouts), today)
       IN  tx' = [tx EXCEPT !.mode = r.mode, !.results = r.results,
                            !.pc = IF r.mode \in {"nodata", "display"} THEN "returned"
                                   ELSE IF r.mode = "raised" THEN "raised"
                                   ELSE IF r.mode = "anchored" /\ r.results = EmptyFcn
                                        THEN "returned"
                                   ELSE "writing",
                            !.failed = (r.mode = "raised")]
    /\ UNCHANGED <<load, txFrame>>

\* one INSERT ... ON CONFLICT statement of execute_values
TxExecutePage ==
    /\ tx.pc = "writing"
    /\ DOMAIN tx.pending # DOMAIN tx.results
    /\ LET page == NextPage(tx.results, tx.pending)
       IN  IF Autocommit
           THEN /\ load' = Upsert(load, page)
                /\ tx' = [tx EXCEPT !.pending = Upsert(@, page)]
           ELSE /\ load' = load
                /\ tx' = [tx EXCEPT !.pending = Upsert(@, page)]
    /\ UNCHANGED txFrame

\* conn.commit()
TxCommit ==
    /\ tx.pc = "writing"
    /\ DOMAIN tx.pending = DOMAIN tx.results
    /\ load' = Upsert(load, tx.pending)
    /\ tx' = [tx EXCEPT !.pc = "committed", !.pending = EmptyFcn]
    /\ UNCHANGED txFrame

\* a statement or the commit raises (connection lost, server error): the
\* exception leaves _calc_pmc_inner
TxFail ==
    /\ tx.pc \in {"start", "writing"}
    /\ tx' = [tx EXCEPT !.pc = "raised", !.failed = TRUE]
    /\ UNCHANGED <<load, txFrame>>

\* finally: conn.close() -- what was not committed is rolled back
TxClose ==
    /\ tx.pc \in {"returned", "committed", "raised"}
    /\ tx' = [tx EXCEPT !.pc = "closed", !.pending = EmptyFcn]
    /\ UNCHANGED <<load, txFrame>>

\* another connection reads training_load
TxRead ==
    /\ tx.pc # "closed"
    /\ ~tx.seen \/ tx.snapshot # load
    /\ tx' = [tx EXCEPT !.seen = TRUE, !.snapshot = load]
    /\ UNCHANGED <<load, txFrame>>

NextTx == TxCompute \/ TxExecutePage \/ TxCommit \/ TxFail \/ TxClose \/ TxRead

SpecTx == InitTx /\ [][NextTx]_vars

----------------------------------------------------------------------------
(* TrainingPeaks ingests: each step is the upsert of one workout of a      *)
(* response, keyed by its external id on one date.                         *)

TpWorkouts ==
    [tssPlanned : TpTssPlanned, tssActual : TpTssActual, ifPlanned : TpIfPlanned,
     if : TpIf, ifActual : TpIfActual]

InitIngest ==
    /\ InitIdleStore
    /\ wq = NoQuality
    /\ sv = NoSolve
    /\ tap = NoTaper
    /\ fpr = NoFtp
    /\ st = NoStrava
    /\ tx = NoTx
    /\ tw = [rows |-> EmptyFcn, ext |-> 0, op |-> "none", replaced |-> NoScore]

ingestFrame == <<storeVars, wq, sv, tap, fpr, st, tx>>

\* cur.execute(INSERT ... ON CONFLICT ... DO UPDATE ..., row)
IngestWorkout ==
    /\ \E e \in ExtIds, w \in TpWorkouts :
          LET new == TpRow(w)
          IN  IF e \in DOMAIN tw.rows
              THEN tw' = [rows |-> [tw.rows EXCEPT ![e] = ConflictUpdate(tw.rows[e], new)],
                          ext |-> e, op |-> "update",
                          replaced |-> tw.rows[e].workout_quality]
              ELSE tw' = [rows |-> (e :> new) @@ tw.rows,
                          ext |-> e, op |-> "insert", replaced |-> NoScore]
    /\ UNCHANGED ingestFrame

\* if not w_date: continue
IngestSkip ==
    /\ tw.op # "skip"
    /\ tw' = [tw EXCEPT !.ext = 0, !.op = "skip", !.replaced = NoScore]
    /\ UNCHANGED ingestFrame

NextIngest == IngestWorkout \/ IngestSkip

SpecIngest == InitIngest /\ [][NextIngest]_vars

----------------------------------------------------------------------------
(* One call of strava_api_get, one pass of `for attempt in                 *)
(* range(max_retries)` per step.  attempt is the loop index, requests the  *)
(* number of GETs sent, after_refresh the number of GETs sent since a      *)
(* successful token refresh.                                               *)

InitStrava ==
    /\ InitIdleStore
    /\ wq = NoQuality
    /\ sv = NoSolve
    /\ tap = NoTaper
    /\ fpr = NoFtp
    /\ tw = NoIngest
    /\ tx = NoTx
    /\ \E m \in MaxRetriesArgs :
          st = [max_retries |-> m, attempt |-> 0, requests |-> 0, status |-> "none",
                auth_retried |-> FALSE, refreshes |-> 0, token |-> "old",
                after_refresh |-> 0, early |-> FALSE, pc |-> "loop"]

stravaFrame == <<storeVars, wq, sv, tap, fpr, tw, tx>>

\* one pass of the loop: the GET and the handling of its outcome
StravaAttempt ==
    /\ st.pc = "loop"
    /\ st.attempt < st.max_retries
    /\ \E o \in GetOutcomes :
          LET sent == [st EXCEPT !.requests = @ + 1, !.status = o,
                                 !.after_refresh = IF st.token = "new" THEN @ + 1 ELSE @,
                                 !.early = @ \/ (st.status \in {"200", "404"})]
              next == [sent EXCEPT !.attempt = @ + 1]
          IN  IF o = "exception" THEN st' = next
              ELSE IF o = "200" THEN st' = [sent EXCEPT !.pc = "returned"]
              ELSE IF o = "429" THEN st' = next
              ELSE IF AuthRetry(o, st.auth_retried)
                   THEN \E r \in RefreshOutcomes :
                          LET tried == [sent EXCEPT !.auth_retried = TRUE,
                                                    !.refreshes = @ + 1]
                          IN  IF r = "token"
                              THEN st' = [tried EXCEPT !.token = "new", !.after_refresh = 0,
                                                       !.attempt = @ + 1]
                              ELSE IF r = "none"
                                   THEN st' = [tried EXCEPT !.pc = "auth_failed"]
                              ELSE st' = [tried EXCEPT !.pc = "refresh_raised"]
              ELSE IF o = "404" THEN st' = [sent EXCEPT !.pc = "returned"]
              ELSE st' = next
    /\ UNCHANGED stravaFrame

\* raise RuntimeError(... failed after {max_retries} retries ...)
StravaExhausted ==
    /\ st.pc = "loop"
    /\ st.attempt >= st.max_retries
    /\ st' = [st EXCEPT !.pc = "exhausted"]
    /\ UNCHANGED stravaFrame

NextStrava == StravaAttempt \/ StravaExhausted

SpecStrava == InitStrava /\ [][NextStrava]_vars

\* a started call runs on: every pass ends, by a response, a timeout or a
\* finite sleep
SpecStravaFair == SpecStrava /\ WF_vars(NextStrava)

----------------------------------------------------------------------------
(* The engine run once on every day, from the first workout date on, over  *)
(* a workout table that does not change, starting with an empty            *)
(* training_load.                                                          *)

InitDaily ==
    /\ workouts \in RunTables
    /\ workouts # EmptyFcn
    /\ today = SetMin(WorkoutDates(workouts))
    /\ load = EmptyFcn
    /\ seedDate = 0
    /\ lastOp = "init"
    /\ lastMode = "none"
    /\ lastAnchor = 0
    /\ lastWritten = {}
    /\ runAge = 2
    /\ pc = [p \in Procs |-> "idle"]
    /\ anc = [p \in Procs |-> NoRow]
    /\ rws = [p \in Procs |-> EmptyFcn]
    /\ load0 = EmptyFcn
    /\ wq = NoQuality
    /\ sv = NoSolve
    /\ MoreIdle

\* the day's run
DailyRun == runAge # 0 /\ CalcPmc

\* the next day begins once the day's run is done
DailyAdvance == runAge = 0 /\ AdvanceDay

NextDaily == DailyRun \/ DailyAdvance

SpecDaily == InitDaily /\ [][NextDaily]_vars

----------------------------------------------------------------------------
(* Properties *)

HasLatest == DOMAIN load # {}
LatestDate == SetMax(DOMAIN load)
LatestQualifies == HasLatest /\ load[LatestDate].ctl > ANCHOR_MIN_CTL * 100
RunStep == lastOp' = "run"

\* C1: a run that finds the latest LoadPoint with CTL > 10 changes no
\* LoadPoint outside anchor_date + 1 .. today, so every point dated on or
\* before the anchor keeps its values; an anchored forward-fill writes
\* exactly the dates anchor_date + 1 .. today.
C1_AnchoredFrame ==
    [][(RunStep /\ LatestQualifies) =>
        /\ \A d \in (DOMAIN load \cup DOMAIN load') \ ((LatestDate + 1)..today) :
              d \in DOMAIN load /\ d \in DOMAIN load' /\ load'[d] = load[d]
        /\ lastWritten' \subseteq (LatestDate + 1)..today
        /\ lastMode' = "anchored" => lastWritten' = (LatestDate + 1)..today]_vars

C1_Witness ==
    /\ lastOp = "run"
    /\ lastMode = "anchored"
    /\ Cardinality(lastWritten) >= 2
    /\ lastAnchor \in DOMAIN load
    /\ lastWritten \subseteq DOMAIN load

\* C2: no engine run changes a LoadPoint that is dated before the latest
\* stored LoadPoint, nor the manually seeded row while it still holds its
\* seeded CTL > 10.
C2_NeverRewritten ==
    [][RunStep =>
        \A d \in DOMAIN load :
            \/ d < LatestDate
            \/ d = seedDate /\ load[d].ctl \in SeedCtl /\ load[d].ctl > ANCHOR_MIN_CTL * 100
            => load'[d] = load[d]]_vars

\* C3: an engine run that directly follows a cold-start or anchored run, with
\* the same day and the same workouts, leaves the LoadPoint store as it is.
C3_Idempotent ==
    [][(lastOp = "run" /\ lastMode \in {"cold", "anchored"} /\ RunStep) =>
        load' = load]_vars

\* C4: a run on day N + 1, with no workout dated <= N touched since the last
\* run on day N, leaves every LoadPoint dated <= N with the values it had
\* after that run.
C4_NextDayReproduces ==
    [][(RunStep /\ runAge = 1) =>
        \A d \in DOMAIN load : d < today => load'[d] = load[d]]_vars

\* C5: the stored series is dense: between two stored LoadPoints every
\* calendar date has a LoadPoint.
C5_Dense ==
    \A d1 \in DOMAIN load, d2 \in DOMAIN load :
        \A d \in d1..d2 : d \in DOMAIN load

\* C6 as claimed: every LoadPoint a run writes has tsb = ctl - atl on the
\* stored two-decimal values.
C6_TsbExact ==
    lastOp = "run" =>
        \A d \in lastWritten : load[d].tsb = load[d].ctl - load[d].atl

\* C6: every LoadPoint a run writes has a stored tsb within 0.01 of the
\* stored ctl minus the stored atl.
C6_TsbWithinOneCent ==
    lastOp = "run" =>
        \A d \in lastWritten : Abs(load[d].tsb - (load[d].ctl - load[d].atl)) <= 1

C6_Witness ==
    /\ lastOp = "run"
    /\ \E d \in lastWritten : load[d].tsb # load[d].ctl - load[d].atl

\* C7: when two interleaved runs have both finished, the store equals the
\* store a single run would have left, and if the latest LoadPoint before
\* both runs was an anchor (CTL > 10), no LoadPoint that existed then (all
\* are dated on or before it) has changed.
C7_ConcurrentAsSingle ==
    (\A p \in Procs : pc[p] = "done") =>
        /\ load = Upsert(load0, PmcInner(ReadAnchor(load0), DailyTssRows(workouts), today).results)
        /\ IsAnchored(ReadAnchor(load0)) => \A d \in DOMAIN load0 : load[d] = load0[d]

\* C8: with no workout a run reports no-data and leaves the store alone,
\* anchor or not; with a workout it neither reports no-data nor raises, and
\* every date it writes that has no workout is stored with zero stress.
C8_NoDataOnlyWhenEmpty ==
    [][RunStep =>
        IF DOMAIN workouts = {}
        THEN lastMode' = "nodata" /\ load' = load /\ lastWritten' = {}
        ELSE /\ lastMode' \notin {"nodata", "raised"}
             /\ \A d \in lastWritten' \ WorkoutDates(workouts) :
                    load'[d].daily_tss = 0]_vars

C8_Witness ==
    /\ lastOp = "run"
    /\ lastMode \in {"cold", "anchored"}
    /\ lastWritten \ WorkoutDates(workouts) # {}
    /\ \E k \in DOMAIN workouts :
          /\ workouts[k].tss_actual = NULL /\ workouts[k].tss_planned = NULL
          /\ k[1] \in lastWritten

\* C9: a run over a non-empty workout store takes the anchored branch exactly
\* when a latest LoadPoint exists with CTL > 10, and otherwise the cold-start
\* branch, whose first point is one recurrence step from CTL = ATL = 0 at the
\* first workout date.
C9_ModeSelection ==
    [][(RunStep /\ DOMAIN workouts # {}) =>
        /\ LatestQualifies <=> lastMode' \in {"anchored", "display"}
        /\ ~LatestQualifies <=> lastMode' = "cold"
        /\ (lastMode' = "cold" /\ lastWritten' # {}) =>
              LET f == SetMin(WorkoutDates(workouts))
                  tss == FloatOfTss(DailyTss(workouts, f))
              IN  /\ f = SetMin(lastWritten')
                  /\ load'[f].ctl = Round2(RoundDiv(tss, CTL_DAYS))
                  /\ load'[f].atl = Round2(RoundDiv(tss, ATL_DAYS))]_vars

C9_Witness ==
    /\ lastOp = "run"
    /\ lastMode = "cold"
    /\ lastWritten # {}
    /\ lastAnchor \in DOMAIN load
    /\ lastAnchor \notin lastWritten
    /\ load[lastAnchor].ctl = ANCHOR_MIN_CTL * 100

\* C10 as claimed: a run that finds the latest LoadPoint dated at or after
\* today writes nothing and leaves the store unchanged.
C10_LatestAtTodayNoWrite ==
    [][(RunStep /\ HasLatest /\ LatestDate >= today) =>
        load' = load /\ lastWritten' = {}]_vars

\* C10: a run that finds the latest LoadPoint dated at or after today and
\* with CTL > 10 computes nothing and leaves the store unchanged: it takes
\* the read-back branch (or reports no-data when there is no workout).
C10_QualifyingLatestAtTodayNoWrite ==
    [][(RunStep /\ LatestQualifies /\ LatestDate >= today) =>
        /\ load' = load
        /\ lastWritten' = {}
        /\ lastMode' = IF DOMAIN workouts = {} THEN "nodata" ELSE "display"]_vars

C10_Witness ==
    /\ lastOp = "run"
    /\ lastMode = "display"
    /\ lastAnchor >= today
    /\ lastAnchor \in DOMAIN load
    /\ load[lastAnchor].ctl > ANCHOR_MIN_CTL * 100
    /\ Cardinality(DOMAIN load) >= 2

----------------------------------------------------------------------------
(* Properties of a single run *)

\* the daily stress of date d in the stored workouts (0: no workout)
StressOn(d) == IF d \in WorkoutDates(workouts) THEN DailyTss(workouts, d) ELSE 0

\* C11: an anchored run computes the first new day from the anchor's stored
\* CTL and ATL: the stored ctl[a+1] is ctl[a] + (stress - ctl[a]) / 42 and the
\* stored atl[a+1] is atl[a] + (stress - atl[a]) / 7, each rounded to two
\* decimals; every later day follows its predecessor by the same recurrence
\* (on the stored values: up to the rounding of both days); from CTL 55,
\* ATL 60 and stress 80 the first new day stores 55.60 and 62.86.
C11_AnchoredRecurrence ==
    [][(RunStep /\ lastMode' = "anchored") =>
        LET a == LatestDate
            s == 100 * StressOn(a + 1)
        IN  /\ Abs(CTL_DAYS * (load'[a + 1].ctl - load[a].ctl) - (s - load[a].ctl)) <= 21
            /\ Abs(ATL_DAYS * (load'[a + 1].atl - load[a].atl) - (s - load[a].atl)) <= 3
            /\ \A d \in (a + 2)..today :
                  /\ Abs(CTL_DAYS * (load'[d].ctl - load'[d - 1].ctl)
                         - (100 * StressOn(d) - load'[d - 1].ctl)) <= 41
                  /\ Abs(ATL_DAYS * (load'[d].atl - load'[d - 1].atl)
                         - (100 * StressOn(d) - load'[d - 1].atl)) <= 6
            /\ (load[a].ctl = 5500 /\ load[a].atl = 6000 /\ StressOn(a + 1) = 80) =>
                  load'[a + 1].ctl = 5560 /\ load'[a + 1].atl = 6286]_vars

C11_Witness ==
    /\ lastOp = "run"
    /\ lastMode = "anchored"
    /\ lastAnchor = seedDate
    /\ Cardinality(lastWritten) >= 2
    /\ load[lastAnchor].ctl = 5500
    /\ load[lastAnchor].atl = 6000
    /\ StressOn(lastAnchor + 1) = 80
    /\ load[lastAnchor + 1].ctl = 5560
    /\ load[lastAnchor + 1].atl = 6286

\* the store after a run on day 3 over {day 1: 50, day 2: nothing, day 3: 100}
\* that started without any LoadPoint
C12_Scenario ==
    /\ lastOp = "run"
    /\ seedDate = 0
    /\ today = 3
    /\ WorkoutDates(workouts) = {1, 3}
    /\ StressOn(1) = 50
    /\ StressOn(3) = 100

C12_ThreePoints ==
    /\ DOMAIN load = {1, 2, 3}
    /\ load[1].daily_tss = 50 /\ load[1].ctl = 119 /\ load[1].atl = 714
    /\ load[2].daily_tss = 0 /\ load[2].ctl = 116 /\ load[2].atl = 612
    /\ load[3].daily_tss = 100 /\ load[3].ctl = 352 /\ load[3].atl = 1953

\* C12 as claimed: the cold-start run over {day 1: 50, day 2: 0, day 3: 100}
\* stores exactly three LoadPoints, computed by the recurrence from
\* CTL = ATL = 0, and tsb[day 3] = ctl[day 3] - atl[day 3].
C12_ColdStartExactTsb ==
    C12_Scenario => C12_ThreePoints /\ load[3].tsb = load[3].ctl - load[3].atl

\* C12: the cold-start run over {day 1: 50, day 2: 0, day 3: 100} stores
\* exactly three LoadPoints, (1.19, 7.14), (1.16, 6.12) and (3.52, 19.53), the
\* recurrence from CTL = ATL = 0 rounded to two decimals, and tsb[day 3] is
\* the rounded difference of the unrounded values, -16.02, within 0.01 of
\* ctl[day 3] - atl[day 3].
C12_ColdStartRoundedTsb ==
    C12_Scenario =>
        /\ C12_ThreePoints
        /\ load[3].tsb = 0 - 1602
        /\ Abs(load[3].tsb - (load[3].ctl - load[3].atl)) <= 1

C12_Witness ==
    /\ C12_Scenario
    /\ lastMode = "cold"
    /\ lastWritten = {1, 2, 3}
    /\ load[3].tsb # load[3].ctl - load[3].atl

\* the stress one workout row contributes: actual, else planned, else nothing
C14_Term(d, e) ==
    IF <<d, e>> \notin DOMAIN workouts THEN 0
    ELSE IF workouts[<<d, e>>].tss_actual # NULL THEN workouts[<<d, e>>].tss_actual
    ELSE IF workouts[<<d, e>>].tss_planned # NULL THEN workouts[<<d, e>>].tss_planned
    ELSE 0

\* C14: the stress a run uses for a date is the sum, over the workouts of
\* that date, of the actual stress, or of the planned stress where the actual
\* one is missing; a date without workout counts as zero; and the run leaves
\* the workout table as it is.
C14_DailyStressSum ==
    [][RunStep =>
        /\ workouts' = workouts
        /\ \A d \in lastWritten' : load'[d].daily_tss = C14_Term(d, 1) + C14_Term(d, 2)]_vars

C14_Witness ==
    /\ lastOp = "run"
    /\ \E d \in lastWritten :
          /\ {<<d, 1>>, <<d, 2>>} \subseteq DOMAIN workouts
          /\ workouts[<<d, 1>>].tss_actual = 0
          /\ workouts[<<d, 1>>].tss_planned = 100
          /\ workouts[<<d, 2>>].tss_actual = NULL
          /\ workouts[<<d, 2>>].tss_planned = 80
          /\ load[d].daily_tss = 80
    /\ \E d \in lastWritten : d \notin WorkoutDates(workouts) /\ load[d].daily_tss = 0

----------------------------------------------------------------------------
(* Properties of the cold-start range and of the sign of the stored values *)

\* C13 as claimed: a cold-start run writes one LoadPoint for every date from
\* the first date with a workout through the most recent date with a workout,
\* and changes no LoadPoint outside that range.
C13_ColdRangeToLastData ==
    [][(RunStep /\ lastMode' = "cold") =>
        LET range == SetMin(WorkoutDates(workouts))..SetMax(WorkoutDates(workouts))
        IN  /\ lastWritten' = range
            /\ \A d \in DOMAIN load' \ range : d \in DOMAIN load /\ load'[d] = load[d]]_vars

\* C13: a cold-start run writes one LoadPoint for every date from the first
\* date with a workout through today (none when that date is after today),
\* and changes no LoadPoint outside that range.
C13_ColdRangeToToday ==
    [][(RunStep /\ lastMode' = "cold") =>
        LET range == SetMin(WorkoutDates(workouts))..today
        IN  /\ lastWritten' = range
            /\ range \subseteq DOMAIN load'
            /\ \A d \in DOMAIN load' \ range : d \in DOMAIN load /\ load'[d] = load[d]]_vars

C13_Witness ==
    /\ lastOp = "run"
    /\ lastMode = "cold"
    /\ SetMax(WorkoutDates(workouts)) < today
    /\ lastWritten = SetMin(WorkoutDates(workouts))..today
    /\ Cardinality(lastWritten) >= 2

\* C15: with daily stresses >= 0 and a seed with CTL >= 0 and ATL >= 0, every
\* stored CTL and every stored ATL is >= 0, whatever runs have happened.
C15_NonNegative ==
    \A d \in DOMAIN load : load[d].ctl >= 0 /\ load[d].atl >= 0

C15_Witness ==
    /\ lastOp = "run"
    /\ seedDate # 0
    /\ \E d \in lastWritten : load[d].ctl = 0 /\ load[d].atl = 0
    /\ \E d \in DOMAIN load : load[d].daily_tss = 0 /\ load[d].ctl > 0 /\ load[d].atl > 0

----------------------------------------------------------------------------
(* Properties of calc_workout_quality *)

\* C16: whenever calc_workout_quality returns a number, that number lies in
\* [0, 100], whatever the arguments: actual stress far above or far below
\* the plan, intensity deviations larger than the planned intensity.
C16_ScoreInRange ==
    (wq.called /\ wq.score.defined) =>
        0 <= wq.score.value /\ wq.score.value <= 100 * Scale

\* an intensity deviation of three times the plan, no stress done: the
\* weighted sum is negative and the score is 0
C16_Witness ==
    /\ wq.called
    /\ wq.score.defined
    /\ wq.score.value = 0
    /\ wq.tss_actual = 0
    /\ wq.if_planned = 50
    /\ wq.if_actual = 200

\* C17: calc_workout_quality returns no score exactly when one of its four
\* arguments is missing, or planned_stress is 0, or planned_intensity is 0;
\* in every other case it returns a number.
C17_NoScoreExactlyWhen ==
    wq.called =>
        (~wq.score.defined <=>
            \/ NULL \in {wq.tss_planned, wq.tss_actual, wq.if_planned, wq.if_actual}
            \/ wq.tss_planned = 0
            \/ wq.if_planned = 0)

C17_Witness ==
    /\ wq.called
    /\ ~wq.score.defined
    /\ NULL \notin {wq.tss_planned, wq.tss_actual, wq.if_planned, wq.if_actual}
    /\ wq.tss_planned = 100
    /\ wq.if_planned = 0

\* clamp(x, lo, hi)
C18_Clamp(x, lo, hi) == IF x < lo THEN lo ELSE IF x > hi THEN hi ELSE x

\* clamp(0.5 * stress_adherence + 0.5 * intensity_adherence, 0, 100)
C18_Claimed(tp, ta, ip, ia) ==
    LET stress_adherence ==
            RoundDiv(C18_Clamp(Ratio(ta, tp), 0, 12 * (RatioScale \div 10)) * 10, 12)
        intensity_adherence == 100 * Scale - Ratio(Abs(ia - ip), ip)
    IN  C18_Clamp(RoundDiv(stress_adherence + intensity_adherence, 2), 0, 100 * Scale)

----------------------------------------------------------------------------
(* Properties of _calc_speed_kph *)

C19_Safe ==
    /\ sv.pc # "raised"
    /\ sv.i <= MAX_ITER
    /\ sv.v >= 0
    /\ sv.pc = "done" =>
          sv.kph >= 0 /\ sv.kph = CalcSpeedKph(sv.power, sv.kg, sv.cda, sv.crr)

\* C19: _calc_speed_kph never raises and returns after at most 50 Newton
\* iterations, whatever the arguments: power <= 0, a zero derivative (the
\* loop is left and the current estimate returned), an iterate driven
\* negative (reset to 1.0 m/s, the loop goes on).
C19_AlwaysReturns == []C19_Safe /\ <>(sv.pc = "done")

\* negative power: the iterate is reset to 1.0 m/s in every late pass and
\* 3.6 km/h is returned after the 50th
C19_Witness ==
    /\ sv.pc = "done"
    /\ sv.power < 0
    /\ sv.i = MAX_ITER
    /\ sv.v = V_RESET
    /\ sv.kph = 360

\* C20 as claimed: for fixed mass, CdA and Crr the returned speed is
\* strictly increasing in power.
C20_IncreasingInPower ==
    sv.pc = "done" =>
        \A p2 \in Powers :
            p2 > sv.power => CalcSpeedKph(p2, sv.kg, sv.cda, sv.crr) > sv.kph

\* C20: for fixed mass, CdA and Crr, not both CdA and Crr zero, the returned
\* speed is strictly increasing in power over positive powers.
C20_IncreasingInPositivePower ==
    (sv.pc = "done" /\ sv.power > 0 /\ (sv.cda > 0 \/ sv.crr > 0)) =>
        \A p2 \in Powers :
            p2 > sv.power => CalcSpeedKph(p2, sv.kg, sv.cda, sv.crr) > sv.kph

C20_Witness ==
    /\ sv.pc = "done"
    /\ sv.power = 200
    /\ sv.kg = 85
    /\ sv.cda = 35
    /\ sv.crr = 4
    /\ sv.kph > CalcSpeedKph(100, sv.kg, sv.cda, sv.crr)
    /\ sv.kph < CalcSpeedKph(300, sv.kg, sv.cda, sv.crr)

\* C21 as claimed: for fixed power, mass and Crr the returned speed is
\* strictly decreasing in CdA, and each drafting scenario of the race plan
\* (CdA reduced by 15, 20 or 25 percent) is strictly faster than the solo
\* scenario on the same course at the same power.
C21_DecreasingInCda ==
    sv.pc = "done" =>
        /\ \A c2 \in Cdas :
              c2 < sv.cda => CalcSpeedKph(sv.power, sv.kg, c2, sv.crr) > sv.kph
        /\ \A pct \in {DRAFT_LO_PCT, DRAFT_PCT, DRAFT_HI_PCT} :
              DraftKph(sv.power, sv.kg, sv.cda, sv.crr, pct) > OnCourse(sv.kph)

\* C21: for fixed positive power, mass and Crr the returned speed is strictly
\* decreasing in CdA as long as CdA and Crr are not both zero, and with a
\* positive CdA each drafting scenario of the race plan (CdA reduced by 15,
\* 20 or 25 percent) is strictly faster than the solo scenario on the same
\* course at the same power.
C21_DecreasingInCdaPositivePower ==
    (sv.pc = "done" /\ sv.power > 0) =>
        /\ \A c2 \in Cdas :
              (c2 < sv.cda /\ (c2 > 0 \/ sv.crr > 0)) =>
                  CalcSpeedKph(sv.power, sv.kg, c2, sv.crr) > sv.kph
        /\ sv.cda > 0 =>
              \A pct \in {DRAFT_LO_PCT, DRAFT_PCT, DRAFT_HI_PCT} :
                  DraftKph(sv.power, sv.kg, sv.cda, sv.crr, pct) > OnCourse(sv.kph)

C21_Witness ==
    /\ sv.pc = "done"
    /\ sv.power = 200
    /\ sv.kg = 85
    /\ sv.cda = 35
    /\ sv.crr = 4
    /\ DraftKph(sv.power, sv.kg, sv.cda, sv.crr, DRAFT_LO_PCT) > OnCourse(sv.kph)
    /\ DraftKph(sv.power, sv.kg, sv.cda, sv.crr, DRAFT_HI_PCT)
          > DraftKph(sv.power, sv.kg, sv.cda, sv.crr, DRAFT_LO_PCT)

----------------------------------------------------------------------------
(* Properties of the taper simulation *)

\* the claimed daily stress, times 7, with rem days remaining
C22_WeeklyClaimed(rem, ctl0) ==
    IF rem > 84 THEN Max(7 * ctl0 * Cent, 350 * Scale)
    ELSE IF rem > 42 THEN 500 * Scale
    ELSE IF rem > 21 THEN 600 * Scale
    ELSE IF rem > 14 THEN 420 * Scale
    ELSE IF 10 * rem > 21 THEN 300 * Scale
    ELSE 7 * 15 * Scale

\* C22: the taper simulation applies the recurrence once per day, from the
\* latest stored CTL and ATL, for days_to_race days; the stress of a day
\* depends only on weeks_out = (days remaining) / 7: above 12 weeks
\* max(7 * CTL_today, 350) / 7, above 6 weeks 500 / 7, above 3 weeks 600 / 7,
\* above 2 weeks 0.7 * 600 / 7, above 0.3 weeks 0.5 * 600 / 7, otherwise 15;
\* from the peak phase on the stress never increases from one day to the next.
C22_TaperSchedule ==
    [][/\ tap'.d \in {tap.d, tap.d + 1}
       /\ tap'.pc = "done" => tap'.d = Max(tap.days_to_race, 0) /\ tap'.ctl = tap.ctl
       /\ tap'.d = tap.d + 1 =>
             LET rem == tap.days_to_race - tap.d
             IN  /\ rem >= 1
                 /\ Abs(7 * tap'.tss - C22_WeeklyClaimed(rem, tap.ctl0)) <= 3
                 /\ Abs(CTL_DAYS * (tap'.ctl - tap.ctl) - (tap'.tss - tap.ctl)) <= 21
                 /\ Abs(ATL_DAYS * (tap'.atl - tap.atl) - (tap'.tss - tap.atl)) <= 3
                 /\ (rem + 1 <= 42 /\ tap.tss # NULL) => tap'.tss <= tap.tss]_vars

\* a simulation from 90 days out has gone through every phase
C22_Witness ==
    /\ tap.pc = "done"
    /\ tap.days_to_race = 90
    /\ tap.d = 90
    /\ tap.ctl0 = 5500
    /\ tap.tss = 15 * Scale
    /\ tap.ctl > tap.atl

----------------------------------------------------------------------------
(* Properties of the FTP projections *)

\* x lies between a and b, whichever is larger
Between(x, a, b) == Min(a, b) <= x /\ x <= Max(a, b)

C23_Projected == fpr.pc = "ready" /\ fpr.projected /\ fpr.current_ftp # NULL

C23_BetweenDates ==
    /\ (fpr.day <= fpr.race_date /\ fpr.race_date <= fpr.target_date)
         => Between(fpr.ftp_at_vattern, fpr.current_ftp * 1000, fpr.target_ftp * 1000)
    /\ (fpr.day <= fpr.next_test /\ fpr.next_test <= fpr.target_date)
         => Between(fpr.ftp_at_next, fpr.current_ftp * 1000, fpr.target_ftp * 1000)

\* C23: the projection evaluated at the target date equals the target FTP,
\* and the projection at a date between today and the target date lies
\* between current FTP and target FTP.
C23_ReachesTarget ==
    C23_Projected =>
        /\ fpr.ftp_at_eoy = fpr.target_ftp * 1000
        /\ C23_BetweenDates

\* C23 as amended: the projection at the target date equals the target FTP
\* when the target date is at least one week ahead (closer than a week the
\* gain is the one of a full week and the projection stays short of the
\* target; on or after the target date it is the current FTP); a projection
\* at a date between today and the target date lies between current FTP
\* and target FTP in every case.
C23_ReachesTargetAWeekAhead ==
    C23_Projected =>
        /\ fpr.target_date - fpr.day >= 7 => fpr.ftp_at_eoy = fpr.target_ftp * 1000
        /\ (fpr.target_date - fpr.day \in 0..6) =>
              fpr.ftp_at_eoy = fpr.current_ftp * 1000
                  + RoundDiv((fpr.target_ftp - fpr.current_ftp) * 1000
                                 * (fpr.target_date - fpr.day), 7)
        /\ fpr.target_date - fpr.day < 0 => fpr.ftp_at_eoy = fpr.current_ftp * 1000
        /\ C23_BetweenDates

\* a projection from 263 W towards 300 W with the target 34 days ahead and
\* the race before it
C23_Witness ==
    /\ C23_Projected
    /\ fpr.current_ftp = 263
    /\ fpr.target_ftp = 300
    /\ fpr.day = 330
    /\ fpr.target_date = 364
    /\ fpr.race_date = 364
    /\ fpr.ftp_at_eoy = 300000
    /\ fpr.next_test = 365

\* C30: _project_ftp_at_race equals the race-day projection of ftp_project
\* for the same history, day and configuration, up to rounding to a whole
\* watt.
C30_SameRaceDayFtp ==
    (fpr.pc = "ready" /\ fpr.projected /\ fpr.raced /\ fpr.current_ftp # NULL) =>
        fpr.race_ftp = RoundWatt(fpr.ftp_at_vattern)

----------------------------------------------------------------------------
(* Properties of the engine's transaction *)

\* the LoadPoints a complete run on the initial store writes
C24_Full == PmcInner(ReadAnchor(load0), DailyTssRows(workouts), today).results

\* C24: an engine run is all-or-nothing on the LoadPoint store: it writes
\* its whole batch and commits once, or, when it fails before the commit,
\* leaves no part of the batch; no reader sees a partly written series.
C24_AllOrNothing ==
    /\ load \in {load0, Upsert(load0, C24_Full)}
    /\ tx.seen => tx.snapshot \in {load0, Upsert(load0, C24_Full)}
    /\ tx.pc \in {"start", "writing", "returned", "raised"} => load = load0
    /\ tx.failed => load = load0
    /\ tx.pc = "committed" => load = Upsert(load0, C24_Full)
    /\ (tx.pc = "closed" /\ ~tx.failed /\ tx.mode \in {"anchored", "cold"})
         => load = Upsert(load0, C24_Full)

\* a run that failed after its first statement of two, with a reader in
\* between
C24_Witness ==
    /\ tx.pc = "closed"
    /\ tx.failed
    /\ tx.mode = "cold"
    /\ Cardinality(DOMAIN tx.results) > PageSize
    /\ tx.seen
    /\ load = load0

C24_WitnessCommitted ==
    /\ tx.pc = "closed"
    /\ ~tx.failed
    /\ Cardinality(DOMAIN tx.results) > PageSize
    /\ load # load0
    /\ tx.seen /\ tx.snapshot = load0

----------------------------------------------------------------------------
(* Properties of the TrainingPeaks ingest *)

C25_ScoreOfStored(r) ==
    CalcWorkoutQuality(r.tss_planned, r.tss_actual, r.if_planned, r.if_actual)

\* C25: after every TrainingPeaks ingest of a workout (insert or update)
\* the stored quality score equals calc_workout_quality of the stored
\* planned / actual stress and intensity of the same row: a score when all
\* four are present and the planned values are non-zero, no score
\* otherwise; a previously stored score is replaced.
C25_ScoreOfStoredFields ==
    \A e \in DOMAIN tw.rows :
        LET r == tw.rows[e]
        IN  /\ r.workout_quality = C25_ScoreOfStored(r)
            /\ r.workout_quality.defined <=>
                  /\ r.tss_planned \notin {NULL, 0}
                  /\ r.if_planned \notin {NULL, 0}
                  /\ r.tss_actual # NULL
                  /\ r.if_actual # NULL

\* an update replaced a stored score by no score, the other row keeping its
\* own
C25_Witness ==
    /\ tw.op = "update"
    /\ tw.ext = 1
    /\ tw.replaced.defined
    /\ ~tw.rows[1].workout_quality.defined
    /\ tw.rows[1].tss_planned = 0
    /\ 2 \in DOMAIN tw.rows
    /\ tw.rows[2].workout_quality.defined
    /\ tw.rows[2].if_actual = 78

----------------------------------------------------------------------------
(* Properties of strava_api_get *)

C26_Safe ==
    /\ st.requests <= st.max_retries
    /\ st.refreshes <= 1
    /\ ~st.early
    /\ st.pc = "returned" <=> st.status \in {"200", "404"}
    /\ st.pc = "exhausted" => st.attempt = st.max_retries
    /\ st.pc = "auth_failed" => st.status = "401" /\ st.token = "old"
    /\ st.pc = "refresh_raised" => st.status = "401" /\ st.token = "old"
    /\ (st.pc = "loop" /\ st.attempt = st.max_retries) => st.status \notin {"200", "404"}

C27_RefreshNotCounted ==
    (st.pc = "exhausted" /\ st.token = "new") => st.after_refresh >= st.max_retries

----------------------------------------------------------------------------
(* Properties of the stored daily stress *)

\* the LoadPoints the engine produced: all but the manually seeded row, and
\* that one too once a run has written it
C28_Produced == {d \in DOMAIN load : d # seedDate \/ d \in lastWritten}

\* C28: after every engine run each stored LoadPoint the engine produced has
\* daily_stress equal to the current total stress of its date (0 without
\* workout), also when a workout of an already computed day was added or
\* changed between runs.
C28_DailyStressCurrent ==
    lastOp = "run" => \A d \in C28_Produced : load[d].daily_tss = StressOn(d)

\* C28 as amended: each LoadPoint a run writes has daily_stress equal to the
\* current total stress of its date; every other LoadPoint is left as it
\* was stored, so the daily_stress of a day on or before the anchor is the
\* stress of that day at the time it was computed.
C28_DailyStressOfWrittenDays ==
    [][RunStep =>
        /\ workouts' = workouts
        /\ \A d \in DOMAIN load' :
              IF d \in lastWritten'
              THEN load'[d].daily_tss = StressOn(d)
              ELSE d \in DOMAIN load /\ load'[d] = load[d]]_vars

\* an anchored run wrote day 3 and left day 2 with the stress it had when it
\* was computed, the workout of day 2 having changed since
C28_Witness ==
    /\ lastOp = "run"
    /\ lastMode = "anchored"
    /\ lastWritten = {3}
    /\ seedDate = 1
    /\ 2 \in DOMAIN load
    /\ load[2].daily_tss = 100
    /\ StressOn(2) = 500
    /\ load[3].daily_tss = StressOn(3)

----------------------------------------------------------------------------
(* Properties of daily runs *)

\* what a single cold-start run today stores
C29_SingleColdRun == PmcInner(NoRow, DailyTssRows(workouts), today).results

C29_FirstDate == SetMin(WorkoutDates(workouts))

\* C29: running the engine once per day from the first workout date to day
\* N stores the same LoadPoint series as a single cold-start run on day N.
C29_DailyAsSingle ==
    (lastOp = "run" /\ runAge = 0) => load = C29_SingleColdRun

\* C29 as amended: the daily runs store the same dates and daily stresses as
\* the single cold-start run; the series is identical when the last daily
\* run was itself a cold start (latest CTL <= 10); after anchored runs the
\* CTL and ATL of a date differ from the single run's by at most 0.01 per
\* day since the first workout date, and TSB by twice that.
C29_DailyAsSingleUpToRounding ==
    (lastOp = "run" /\ runAge = 0) =>
        /\ DOMAIN load = DOMAIN C29_SingleColdRun
        /\ lastMode = "cold" => load = C29_SingleColdRun
        /\ \A d \in DOMAIN load :
              LET one == C29_SingleColdRun[d]
                  tol == d - C29_FirstDate
              IN  /\ load[d].daily_tss = one.daily_tss
                  /\ Abs(load[d].ctl - one.ctl) <= tol
                  /\ Abs(load[d].atl - one.atl) <= tol
                  /\ Abs(load[d].tsb - one.tsb) <= 2 * tol

\* daily runs, the latest one anchored, whose stored series is off the
\* single run's by a hundredth
C29_Witness ==
    /\ lastOp = "run"
    /\ runAge = 0
    /\ lastMode = "anchored"
    /\ today > C29_FirstDate
    /\ load # C29_SingleColdRun
    /\ load[C29_FirstDate] = C29_SingleColdRun[C29_FirstDate]

====
